---- MODULE Spec2Model ----
(***************************************************************************)
(* Release-quality gate pipeline of the OutSystems architecture scripts:   *)
(*   outsystems/pipeline/get_architectural_debt.py   (extraction step)     *)
(*   outsystems/pipeline/check_architecture_quality.py (evaluation step)   *)
(*   PDF/get_pdf_tech_debt.py                        (PDF adapter)         *)
(* Each script is one sequential process; its position is a pc variable.   *)
(* Python strings are sequences of one-character strings.                  *)
(***************************************************************************)
EXTENDS Integers, Sequences, FiniteSets, TLC

VARIABLES
    \* check_architecture_quality.py
    artifact_file,   \* Artifacts/arch-debt.json on disk
    epc,             \* position of the evaluation step
    data,            \* json.load(f)
    rating,          \* data.get("architecture_rating", "").upper()
    violations,      \* int(data.get("total_violations", 0))
    verdict,         \* how the evaluation step ended
    eval_exit,       \* its exit status (-1 while running)
    \* get_architectural_debt.py
    disk_apps,       \* <artifacts>/applications.cache on disk
    args_app_name,   \* --app_name
    server,          \* what the dashboard answers to GET /MentorStudio/Overview
    pc,              \* position of the extraction step
    apps,            \* load_applications(...)
    app,             \* get_app_by_name(...)
    fetches,         \* number of requests.get calls made
    selected_label,  \* the match target before normalisation
    target_card,     \* position of the matched card in the page, 0 for None
    metrics,         \* the adapter's return value
    warnings,        \* [WARN] lines about unparsable fields
    output,          \* the file at --output
    writes,          \* number of times --output was written
    exit_status,     \* exit status of the extraction step (-1 while running)
    \* get_pdf_tech_debt.py
    pdf_file,        \* the file at --pdf_path
    ppc,             \* position of the PDF step
    text,            \* the concatenated page text
    debt,            \* result["total_technical_debt_percent"], -1 before the match
    pdf_output,      \* the file at --output
    pdf_exit         \* exit status of the PDF step (-1 while running)

evalVars == <<artifact_file, epc, data, rating, violations, verdict, eval_exit>>
extractVars == <<disk_apps, args_app_name, server, pc, apps, app, fetches, selected_label,
                 target_card, metrics, warnings, output, writes, exit_status>>
pdfVars == <<pdf_file, ppc, text, debt, pdf_output, pdf_exit>>
vars == <<evalVars, extractVars, pdfVars>>

----------------------------------------------------------------------------
(* Strings *)

LowerLetters == <<"a","b","c","d","e","f","g","h","i","j","k","l","m",
                  "n","o","p","q","r","s","t","u","v","w","x","y","z">>
UpperLetters == <<"A","B","C","D","E","F","G","H","I","J","K","L","M",
                  "N","O","P","Q","R","S","T","U","V","W","X","Y","Z">>
Digits == <<"0","1","2","3","4","5","6","7","8","9">>
Whitespace == {" ", "\n", "\t", "\r"}

Range(f) == {f[i] : i \in DOMAIN f}

\* the case mappings of str.upper() and str.lower(), letter by letter
ToUpper == [c \in Range(LowerLetters) |-> UpperLetters[CHOOSE i \in DOMAIN LowerLetters : LowerLetters[i] = c]]
ToLower == [c \in Range(UpperLetters) |-> LowerLetters[CHOOSE i \in DOMAIN UpperLetters : UpperLetters[i] = c]]

\* str.upper(), one character
UpperChar(c) == IF c \in DOMAIN ToUpper THEN ToUpper[c] ELSE c

\* str.lower(), one character
LowerChar(c) == IF c \in DOMAIN ToLower THEN ToLower[c] ELSE c

UpperKeepsCase(s) == s

\* str.upper()
Upper(s) == [i \in 1..Len(s) |-> UpperChar(s[i])]

\* str.lower()
Lower(s) == [i \in 1..Len(s) |-> LowerChar(s[i])]

DigitSet == Range(Digits)

IsDigit(c) == c \in DigitSet

DigitValue(c) == (CHOOSE i \in DOMAIN Digits : Digits[i] = c) - 1

\* str.strip(): leading and trailing whitespace removed
RECURSIVE LStrip(_)
LStrip(s) == IF s # <<>> /\ Head(s) \in Whitespace THEN LStrip(Tail(s)) ELSE s

RECURSIVE RStrip(_)
RStrip(s) ==
    IF s # <<>> /\ s[Len(s)] \in Whitespace
    THEN RStrip(SubSeq(s, 1, Len(s) - 1))
    ELSE s

Strip(s) == RStrip(LStrip(s))

\* value of a non-empty run of decimal digits
RECURSIVE DigitsValue(_)
DigitsValue(s) ==
    IF s = <<>> THEN 0
    ELSE 10 * DigitsValue(SubSeq(s, 1, Len(s) - 1)) + DigitValue(s[Len(s)])

AllDigits(s) == s # <<>> /\ \A i \in 1..Len(s) : IsDigit(s[i])

\* int(str): surrounding whitespace ignored, an optional sign, then digits;
\* anything else raises ValueError.
IntBody(s) == IF s # <<>> /\ s[1] \in {"+", "-"} THEN Tail(s) ELSE s
IntParses(s) == AllDigits(IntBody(Strip(s)))
IntOfStr(s) ==
    LET t == Strip(s)
    IN  IF t[1] = "-" THEN 0 - DigitsValue(Tail(t)) ELSE DigitsValue(IntBody(t))

----------------------------------------------------------------------------
(* JSON values read by the evaluation step *)

JStr(s) == [t |-> "str", s |-> s, n |-> 0]
JInt(n) == [t |-> "int", s |-> <<>>, n |-> n]
JNull == [t |-> "null", s |-> <<>>, n |-> 0]
Absent == [t |-> "absent", s |-> <<>>, n |-> 0]

\* the empty JSON object
NoData == [k \in {} |-> Absent]

\* dict.get(key, default)
Get(d, key, default) == IF key \in DOMAIN d THEN d[key] ELSE default

\* int(x) of a JSON value: TypeError on null, ValueError on a non-numeric string
IntRaises(x) ==
    \/ x.t = "null"
    \/ x.t = "str" /\ ~IntParses(x.s)
IntOf(x) == IF x.t = "int" THEN x.n ELSE IntOfStr(x.s)

----------------------------------------------------------------------------
(* get_architectural_debt.py: the data it reads *)

MaxApps == 2
MaxCards == 2

\* the sequences over S of length at most n
SeqsUpTo(S, n) == UNION {[1..k -> S] : k \in 0..n}

NoApp == [Key |-> "None", Name |-> <<>>]

DirectoryNames ==
    {<<"A", "l", "p", "h", "a", "-", "A", "p", "p">>,
     <<"a", "l", "p", "h", "a", "a", "p", "p">>,
     <<"A", "l", "p", "h", "a", " ", "A", "p", "p">>,
     <<"B", "e", "t", "a">>,
     <<"B", "E", "-", "T", "A">>,
     <<>>}

TargetNames ==
    {<<"a", "l", "p", "h", "a", "-", "a", "p", "p">>,
     <<"G", "a", "m", "m", "a">>,
     <<"b", "e", "t", "a">>,
     <<"A", "l", "p", "h", "a", " ", "A", "p", "p">>,
     <<"-">>}

AppRecords == {[Key |-> k, Name |-> n] : k \in {"1", "2"}, n \in DirectoryNames}

CacheMissing == [kind |-> "missing", apps |-> <<>>]
CacheInvalid == [kind |-> "invalid", apps |-> <<>>]
Cache(list) == [kind |-> "json", apps |-> list]

\* an element that may be absent from the markup
NoElem == [present |-> FALSE, text |-> <<>>]
Elem(t) == [present |-> TRUE, text |-> t]
NoScores == [present |-> FALSE, children |-> <<>>]
Scores(children) == [present |-> TRUE, children |-> children]

CardTitles ==
    {<<"A", "c", "m", "e", " ", "S", "u", "i", "t", "e">>,
     <<"A", "p", "p", " ", "T", "w", "o">>}

\* the sub-elements of a card: rating, violations, debt percent, scores
CardFields ==
    {[rating |-> NoElem, violations |-> NoElem, debt |-> NoElem, scores |-> NoScores],
     [rating |-> Elem(<<"A", "r", "c", "h", "i", "t", "e", "c", "t", "u", "r", "e", " ", "R", "a", "t", "i", "n", "g", ":", " ", "B">>),
      violations |-> Elem(<<" ", "1", "2", " ">>), debt |-> Elem(<<"3", "5", "%">>),
      scores |-> Scores(<<<<"1">>, <<" ">>, <<"2">>>>)],
     [rating |-> Elem(<<"B">>), violations |-> NoElem, debt |-> NoElem, scores |-> NoScores],
     [rating |-> Elem(<<" ", "b", " ">>), violations |-> Elem(<<"-", "5">>), debt |-> NoElem,
      scores |-> Scores(<<>>)],
     [rating |-> Elem(<<"Z">>), violations |-> Elem(<<"a", "b", "c">>), debt |-> Elem(<<>>),
      scores |-> NoScores]}

Cards == {[title |-> t, fields |-> f] : t \in CardTitles, f \in CardFields}

Labels == {NoElem, Elem(<<" ", "A", "p", "p">>), Elem(<<>>)}

Down == [status |-> 404, label |-> NoElem, cards |-> <<>>]
Page(label, cards) == [status |-> 200, label |-> label, cards |-> cards]

----------------------------------------------------------------------------
(* get_architectural_debt.py: its functions *)

\* s.replace("-", "")
RECURSIVE RemoveHyphens(_)
RemoveHyphens(s) ==
    IF s = <<>> THEN <<>>
    ELSE IF Head(s) = "-" THEN RemoveHyphens(Tail(s))
    ELSE <<Head(s)>> \o RemoveHyphens(Tail(s))

\* name.replace("-", "").lower()
NormalizeName(s) == Lower(RemoveHyphens(s))

\* the loop of get_app_by_name, from position i on
RECURSIVE ScanApps(_, _, _)
ScanApps(list, normalized_target, i) ==
    IF i > Len(list) THEN NoApp
    ELSE IF NormalizeName(list[i].Name) = normalized_target THEN list[i]
    ELSE ScanApps(list, normalized_target, i + 1)

\* the loop run to its end: the last match instead of the first
RECURSIVE ScanAppsLast(_, _, _, _)
ScanAppsLast(list, normalized_target, i, found) ==
    IF i > Len(list) THEN found
    ELSE ScanAppsLast(list, normalized_target, i + 1,
                      IF NormalizeName(list[i].Name) = normalized_target THEN list[i] ELSE found)

get_app_by_name_no_break(list, target_name) == ScanAppsLast(list, NormalizeName(target_name), 1, NoApp)

get_app_by_name(list, target_name) == ScanApps(list, NormalizeName(target_name), 1)

\* str.isalnum(), one character
Alphanumerics == Range(LowerLetters) \cup Range(UpperLetters) \cup Range(Digits)

IsAlnum(c) == c \in Alphanumerics

\* normalize(s) of the overview adapter
normalize(s) == SelectSeq(Lower(s), IsAlnum)

\* needle in hay
Contains(hay, needle) ==
    \E i \in 0..(Len(hay) - Len(needle)) : SubSeq(hay, i + 1, i + Len(needle)) = needle

RECURSIVE JoinWithSpace(_)
JoinWithSpace(pieces) ==
    IF pieces = <<>> THEN <<>>
    ELSE IF Len(pieces) = 1 THEN pieces[1]
    ELSE pieces[1] \o <<" ">> \o JoinWithSpace(Tail(pieces))

ElemTexts(e) == IF e.present /\ e.text # <<>> THEN <<e.text>> ELSE <<>>

\* card.get_text(separator=" ").strip(): every text node of the card, in document order
CardText(card) ==
    Strip(JoinWithSpace(
        <<card.title>> \o ElemTexts(card.fields.rating) \o ElemTexts(card.fields.violations)
        \o ElemTexts(card.fields.debt)
        \o (IF card.fields.scores.present
            THEN SelectSeq(card.fields.scores.children, LAMBDA t : t # <<>>)
            ELSE <<>>)))

MatchTargetCallerOnly(page, app_name) == app_name

\* lines 59-66: the selected-application label when the page has one, else app_name
MatchTarget(page, app_name) == IF page.label.present THEN Strip(page.label.text) ELSE app_name

\* the loop of lines 81-91, from card i on: the position of the first matching card, or 0
RECURSIVE ScanCards(_, _, _)
ScanCards(cards, norm_target, i) ==
    IF i > Len(cards) THEN 0
    ELSE IF Contains(normalize(CardText(cards[i])), norm_target) THEN i
    ELSE ScanCards(cards, norm_target, i + 1)

\* lines 120-127
RECURSIVE ScoreTexts(_)
ScoreTexts(children) ==
    IF children = <<>> THEN <<>>
    ELSE (IF Strip(Head(children)) # <<>> THEN <<Strip(Head(children))>> ELSE <<>>)
         \o ScoreTexts(Tail(children))

NA == <<"N", "/", "A">>

\* lines 99-103
ScrapeRating(f) == IF f.rating.present THEN Strip(f.rating.text) ELSE NA

\* lines 105-112
ViolationsUnparsable(f) == f.violations.present /\ ~IntParses(Strip(f.violations.text))
ScrapeViolations(f) ==
    IF f.violations.present /\ IntParses(Strip(f.violations.text))
    THEN IntOfStr(Strip(f.violations.text))
    ELSE 0

ScrapeDebtNoDefault(f) == IF f.debt.present THEN Strip(f.debt.text) ELSE <<>>

\* lines 114-118
ScrapeDebt(f) == IF f.debt.present THEN Strip(f.debt.text) ELSE NA

\* lines 120-127
ScrapeScores(f) == IF f.scores.present THEN ScoreTexts(f.scores.children) ELSE <<>>

\* lines 129-135
ScrapeCard(card, label) ==
    [ArchitectureRating |-> ScrapeRating(card.fields),
     TotalViolations |-> ScrapeViolations(card.fields),
     TechnicalDebtPercent |-> ScrapeDebt(card.fields),
     Scores |-> ScrapeScores(card.fields),
     SelectedApplicationName |-> label]

\* lines 159-166
BuildResult(found, m) ==
    [application_id |-> found.Key,
     application_name |-> found.Name,
     architecture_rating |-> Get(m, "ArchitectureRating", NA),
     total_violations |-> Get(m, "TotalViolations", 0),
     technical_debt_percent |-> Get(m, "TechnicalDebtPercent", NA),
     scores |-> Get(m, "Scores", <<>>)]

NoMetrics == [k \in {} |-> 0]
NoOutput == [written |-> FALSE, result |-> BuildResult(NoApp, NoMetrics)]

----------------------------------------------------------------------------
(* Each specification runs one of the three scripts; the other two stay idle *)

NoPdf == [exists |-> FALSE, pages |-> <<>>]
NoPdfOutput == [written |-> FALSE, value |-> -1]

ExtractIdle ==
    /\ disk_apps = CacheMissing
    /\ args_app_name = <<>>
    /\ server = Down
    /\ pc = "idle"
    /\ apps = <<>>
    /\ app = NoApp
    /\ fetches = 0
    /\ selected_label = <<>>
    /\ target_card = 0
    /\ metrics = NoMetrics
    /\ warnings = {}
    /\ output = NoOutput
    /\ writes = 0
    /\ exit_status = -1

EvalIdle ==
    /\ artifact_file = [kind |-> "missing", object |-> FALSE, data |-> NoData]
    /\ epc = "idle"
    /\ data = NoData
    /\ rating = <<>>
    /\ violations = 0
    /\ verdict = "running"
    /\ eval_exit = -1

PdfIdle ==
    /\ pdf_file = NoPdf
    /\ ppc = "idle"
    /\ text = <<>>
    /\ debt = -1
    /\ pdf_output = NoPdfOutput
    /\ pdf_exit = -1

----------------------------------------------------------------------------
(* get_architectural_debt.py: main *)

ExtractStart ==
    /\ pc = "start"
    /\ apps = <<>>
    /\ app = NoApp
    /\ fetches = 0
    /\ selected_label = <<>>
    /\ target_card = 0
    /\ metrics = NoMetrics
    /\ warnings = {}
    /\ output = NoOutput
    /\ writes = 0
    /\ exit_status = -1

\* sys.exit(1)
Exit1 ==
    /\ pc' = "failed"
    /\ exit_status' = 1

\* line 141, load_applications
LoadApplications ==
    /\ pc = "start"
    /\ IF disk_apps.kind # "json"
       THEN Exit1 /\ UNCHANGED apps
       ELSE /\ apps' = disk_apps.apps
            /\ pc' = "search"
            /\ UNCHANGED exit_status
    /\ UNCHANGED <<disk_apps, args_app_name, server, app, fetches, selected_label,
                   target_card, metrics, warnings, output, writes>>
    /\ UNCHANGED <<evalVars, pdfVars>>

\* lines 143-151
FindApplication ==
    /\ pc = "search"
    /\ app' = get_app_by_name(apps, args_app_name)
    /\ IF app' = NoApp
       THEN Exit1
       ELSE pc' = "fetch" /\ UNCHANGED exit_status
    /\ UNCHANGED <<disk_apps, args_app_name, server, apps, fetches, selected_label,
                   target_card, metrics, warnings, output, writes>>
    /\ UNCHANGED <<evalVars, pdfVars>>

FetchOverviewAnyStatus ==
    /\ pc = "fetch"
    /\ fetches' = fetches + 1
    /\ pc' = "select"
    /\ UNCHANGED <<disk_apps, args_app_name, server, apps, app, selected_label,
                   target_card, metrics, warnings, output, writes, exit_status>>
    /\ UNCHANGED <<evalVars, pdfVars>>

\* lines 50-56: the one GET of the overview page
FetchOverview ==
    /\ pc = "fetch"
    /\ fetches' = fetches + 1
    /\ IF server.status # 200
       THEN Exit1
       ELSE pc' = "select" /\ UNCHANGED exit_status
    /\ UNCHANGED <<disk_apps, args_app_name, server, apps, app, selected_label,
                   target_card, metrics, warnings, output, writes>>
    /\ UNCHANGED <<evalVars, pdfVars>>

\* lines 58-95
SelectCard ==
    /\ pc = "select"
    /\ selected_label' = MatchTarget(server, args_app_name)
    /\ target_card' = ScanCards(server.cards, normalize(selected_label'), 1)
    /\ IF target_card' = 0
       THEN Exit1
       ELSE pc' = "scrape" /\ UNCHANGED exit_status
    /\ UNCHANGED <<disk_apps, args_app_name, server, apps, app, fetches,
                   metrics, warnings, output, writes>>
    /\ UNCHANGED <<evalVars, pdfVars>>

\* lines 97-135
ScrapeFields ==
    /\ pc = "scrape"
    /\ metrics' = ScrapeCard(server.cards[target_card], selected_label)
    /\ warnings' = IF ViolationsUnparsable(server.cards[target_card].fields)
                   THEN warnings \cup {"Could not parse violations"}
                   ELSE warnings
    /\ pc' = "write"
    /\ UNCHANGED <<disk_apps, args_app_name, server, apps, app, fetches, selected_label,
                   target_card, output, writes, exit_status>>
    /\ UNCHANGED <<evalVars, pdfVars>>

\* lines 159-180
WriteResult ==
    /\ pc = "write"
    /\ output' = [written |-> TRUE, result |-> BuildResult(app, metrics)]
    /\ writes' = writes + 1
    /\ pc' = "done"
    /\ exit_status' = 0
    /\ UNCHANGED <<disk_apps, args_app_name, server, apps, app, fetches, selected_label,
                   target_card, metrics, warnings>>
    /\ UNCHANGED <<evalVars, pdfVars>>

ExtractNext ==
    \/ LoadApplications
    \/ FindApplication
    \/ FetchOverview
    \/ SelectCard
    \/ ScrapeFields
    \/ WriteResult

SampleDirectory ==
    <<[Key |-> "1", Name |-> <<"A", "c", "m", "e", "-", "S", "u", "i", "t", "e">>],
      [Key |-> "2", Name |-> <<"A", "p", "p">>]>>

CallerNames ==
    {<<"a", "c", "m", "e", "-", "s", "u", "i", "t", "e">>,
     <<"A", "p", "p">>,
     <<"m", "y", " ", "a", "p", "p">>}

Directories == {Cache(list) : list \in SeqsUpTo(AppRecords, MaxApps)}

Servers == {Down} \cup {Page(l, c) : l \in Labels, c \in SeqsUpTo(Cards, MaxCards)}

\* the locator over every directory of up to MaxApps records
LocateInit ==
    /\ disk_apps \in Directories
    /\ args_app_name \in TargetNames
    /\ server \in {Down, Page(NoElem, <<[title |-> <<"A", "l", "p", "h", "a", " ", "A", "p", "p">>, fields |-> CHOOSE f \in CardFields : ~f.rating.present]>>)}
    /\ ExtractStart
    /\ EvalIdle
    /\ PdfIdle

\* the adapter over every page of up to MaxCards cards
\* (with no directory to read the dashboard is never asked: one answer stands for all)
ExtractInit ==
    /\ disk_apps \in {CacheMissing, CacheInvalid, Cache(SampleDirectory)}
    /\ args_app_name \in CallerNames
    /\ server \in Servers
    /\ disk_apps.kind # "json" => server = Down
    /\ ExtractStart
    /\ EvalIdle
    /\ PdfIdle

SpecLocate == LocateInit /\ [][ExtractNext]_vars
SpecExtract == ExtractInit /\ [][ExtractNext]_vars

----------------------------------------------------------------------------
(* Properties of the extraction step *)

Min(S) == CHOOSE x \in S : \A y \in S : x <= y

\* hyphens removed, then lower-cased
Canonical(name) == Lower(SelectSeq(name, LAMBDA c : c # "-"))

Located == disk_apps.kind = "json" /\ pc \notin {"start", "search"}

\* C3: the locator returns the first record of the directory whose name equals
\* the target once both have their hyphens removed and are lower-cased, and
\* None exactly when there is none; the directory is left as loaded; on None
\* the step exits non-zero with no fetch made and no artifact written.
C3_FirstMatch ==
    Located =>
        LET hits == {i \in 1..Len(apps) : Canonical(apps[i].Name) = Canonical(args_app_name)}
        IN  /\ apps = disk_apps.apps
            /\ IF hits = {}
               THEN /\ app = NoApp
                    /\ pc = "failed"
                    /\ exit_status = 1
                    /\ fetches = 0
                    /\ writes = 0
                    /\ ~output.written
               ELSE app = apps[Min(hits)]

\* two records match the target and the first of them was returned
C3_Witness ==
    /\ Located
    /\ Len(apps) = 2
    /\ apps[1].Key # apps[2].Key
    /\ apps[1].Name # apps[2].Name
    /\ Canonical(apps[1].Name) = Canonical(args_app_name)
    /\ Canonical(apps[2].Name) = Canonical(args_app_name)
    /\ app = apps[1]

\* lower-cased, every non-alphanumeric character removed
StrictCanonical(s) == Lower(SelectSeq(s, IsAlnum))

CardSelected == server.status = 200 /\ fetches = 1 /\ pc \notin {"fetch", "select"}

\* C4: the match target is the selected-application label when the page has
\* one and the caller's application name otherwise; the first card whose
\* strictly normalized text contains the strictly normalized target is the
\* one selected, and with no such card the step fails and returns no fields.
C4_FirstCard ==
    CardSelected =>
        LET target == IF server.label.present THEN server.label.text ELSE args_app_name
            hits == {i \in 1..Len(server.cards) :
                        Contains(StrictCanonical(CardText(server.cards[i])), StrictCanonical(target))}
        IN  IF hits = {}
            THEN /\ target_card = 0
                 /\ pc = "failed"
                 /\ exit_status = 1
                 /\ metrics = NoMetrics
                 /\ ~output.written
            ELSE target_card = Min(hits)

\* the label names another application than the caller does, and the label's card was selected
C4_Witness ==
    /\ CardSelected
    /\ server.label = Elem(<<" ", "A", "p", "p">>)
    /\ args_app_name = <<"a", "c", "m", "e", "-", "s", "u", "i", "t", "e">>
    /\ Len(server.cards) = 2
    /\ server.cards[1].title = <<"A", "c", "m", "e", " ", "S", "u", "i", "t", "e">>
    /\ server.cards[2].title = <<"A", "p", "p", " ", "T", "w", "o">>
    /\ target_card = 2

C5_State ==
    /\ writes <= 1
    /\ fetches <= 1
    /\ output.written = (writes = 1)
    /\ (pc \notin {"start", "failed"}) => disk_apps.kind = "json" /\ apps = disk_apps.apps
    /\ (pc \in {"fetch", "select", "scrape", "write", "done"}) => app # NoApp
    /\ fetches = 1 => app # NoApp
    /\ (pc \in {"select", "scrape", "write", "done"}) => fetches = 1 /\ server.status = 200
    /\ target_card # 0 => fetches = 1 /\ server.status = 200
    /\ (pc \in {"scrape", "write", "done"}) => target_card # 0
    /\ output.written => pc = "done" /\ target_card # 0 /\ exit_status = 0
    /\ pc = "failed" => exit_status = 1 /\ writes = 0
    /\ exit_status # -1 => pc \in {"failed", "done"}

C5_Step ==
    /\ pc \notin {"failed", "done"}
    /\ fetches' # fetches => pc = "fetch"
    /\ writes' # writes => pc = "write"
    /\ (pc = "start" /\ disk_apps.kind # "json") => pc' = "failed"
    /\ (pc = "fetch" /\ server.status # 200) => pc' = "failed"

\* C5: the artifact is written at most once, and only after the directory was
\* loaded, the application located, the one fetch answered 200 and a card
\* matched, in that order; a failing step ends the run at once with a non-zero
\* status, nothing written, and nothing run after it.
C5_WriteOnce == []C5_State /\ [][C5_Step]_vars

\* a run that went through every step and wrote the artifact
C5_Witness ==
    /\ pc = "done"
    /\ output.written
    /\ writes = 1
    /\ fetches = 1
    /\ exit_status = 0

\* C6: the persisted total_violations is a non-negative integer whatever the
\* text of the violation element; unparsable text gives 0 with a warning.
C6_NonNegative ==
    output.written =>
        /\ output.result.total_violations >= 0
        /\ ViolationsUnparsable(server.cards[target_card].fields)
           => output.result.total_violations = 0 /\ warnings # {}

\* C7: the persisted architecture_rating is one of A..F or N/A whatever the
\* text of the rating element.
C7_RatingInSet ==
    output.written =>
        output.result.architecture_rating \in {<<"A">>, <<"B">>, <<"C">>, <<"D">>, <<"E">>, <<"F">>, NA}

\* C10: a field whose sub-element the matched card lacks is persisted with its
\* default (N/A, 0, N/A, the empty sequence); raw fields holding only the
\* rating B build the record (B, 0, N/A, <<>>); a matched card is always
\* followed by a written record, never by a failure.
C10_Defaults ==
    /\ \A a \in AppRecords :
          BuildResult(a, [ArchitectureRating |-> <<"B">>])
          = [application_id |-> a.Key, application_name |-> a.Name,
             architecture_rating |-> <<"B">>, total_violations |-> 0,
             technical_debt_percent |-> <<"N", "/", "A">>, scores |-> <<>>]
    /\ target_card # 0 => pc \in {"scrape", "write", "done"}
    /\ output.written =>
          LET f == server.cards[target_card].fields
              r == output.result
          IN  /\ ~f.rating.present => r.architecture_rating = <<"N", "/", "A">>
              /\ ~f.violations.present => r.total_violations = 0
              /\ ~f.debt.present => r.technical_debt_percent = <<"N", "/", "A">>
              /\ ~f.scores.present => r.scores = <<>>
              /\ (f.rating = Elem(<<"B">>) /\ ~f.violations.present /\ ~f.debt.present /\ ~f.scores.present)
                 => r = [application_id |-> app.Key, application_name |-> app.Name,
                         architecture_rating |-> <<"B">>, total_violations |-> 0,
                         technical_debt_percent |-> <<"N", "/", "A">>, scores |-> <<>>]

\* a card with none of the four sub-elements was matched and its record written
C10_Witness ==
    /\ output.written
    /\ server.cards[target_card].fields
       = [rating |-> NoElem, violations |-> NoElem, debt |-> NoElem, scores |-> NoScores]
    /\ output.result.scores = <<>>

----------------------------------------------------------------------------
(* get_pdf_tech_debt.py *)

MaxPages == 2

\* what page.extract_text() may return for a page
PageTexts ==
    {<<"T", "o", "t", "a", "l", " ", "1", "0", " ", "2", " ", "2", "0", "%", " ", "3", "5", "%">>,
     <<"T", "o", "t", "a", "l", " ", "1", "0", " ", "2">>,
     <<"2", "0", "%", " ", "3", "5", "%">>,
     <<"S", "u", "m", "m", "a", "r", "y">>,
     <<"T", "o", "t", "a", "l", " ", "1", "0", " ", "2", " ", "2", "0", " ", "3", "5">>,
     <<"S", "u", "b", "T", "o", "t", "a", "l", " ", "1", " ", "2", " ", "3", " ", "4", "%", "\n", "T", "o", "t", "a", "l", " ", "5", " ", "6", " ", "7", "%", " ", "8", "%">>,
     <<"T", "o", "t", "a", "l", " ", "1", "0", "\n", "2", " ", "2", "0", "%", " ", "3", "5", "%">>}

Pdf(pages) == [exists |-> TRUE, pages |-> pages]

PdfFiles == {NoPdf} \cup {Pdf(pages) : pages \in SeqsUpTo(PageTexts, MaxPages)}

\* lines 15-18
RECURSIVE ConcatPages(_)
ConcatPages(pages) ==
    IF pages = <<>> THEN <<>>
    ELSE Head(pages) \o <<"\n">> \o ConcatPages(Tail(pages))

\* the end of the longest run of characters of class C that starts at s[i]
RECURSIVE SkipRun(_, _, _)
SkipRun(s, i, C) == IF i <= Len(s) /\ s[i] \in C THEN SkipRun(s, i + 1, C) ELSE i

TotalWord == <<"T", "o", "t", "a", "l">>
NoMatch == [found |-> FALSE, group |-> <<>>]

\* r"Total\s+\d+\s+\d+\s+\d+%?\s+(\d+)%" matched at position i.  Adjacent
\* elements have disjoint character classes, so the greedy match is the only one.
MatchAt(s, i) ==
    LET D == DigitSet
        p0 == i + Len(TotalWord)
        p1 == SkipRun(s, p0, Whitespace)
        p2 == SkipRun(s, p1, D)
        p3 == SkipRun(s, p2, Whitespace)
        p4 == SkipRun(s, p3, D)
        p5 == SkipRun(s, p4, Whitespace)
        p6 == SkipRun(s, p5, D)
        p7 == IF p6 <= Len(s) /\ s[p6] = "%" THEN p6 + 1 ELSE p6
        p8 == SkipRun(s, p7, Whitespace)
        p9 == SkipRun(s, p8, D)
    IN  IF /\ p0 - 1 <= Len(s)
           /\ SubSeq(s, i, p0 - 1) = TotalWord
           /\ p1 > p0 /\ p2 > p1 /\ p3 > p2 /\ p4 > p3 /\ p5 > p4 /\ p6 > p5
           /\ p8 > p7 /\ p9 > p8
           /\ p9 <= Len(s) /\ s[p9] = "%"
        THEN [found |-> TRUE, group |-> SubSeq(s, p8, p9 - 1)]
        ELSE NoMatch

\* re.search: the match at the leftmost position that has one
RECURSIVE SearchFrom(_, _)
SearchFrom(s, i) ==
    IF i > Len(s) THEN NoMatch
    ELSE IF MatchAt(s, i).found THEN MatchAt(s, i)
    ELSE SearchFrom(s, i + 1)

\* line 21
SearchTotal(s) == SearchFrom(s, 1)

PdfInit ==
    /\ pdf_file \in PdfFiles
    /\ ppc = "open"
    /\ text = <<>>
    /\ debt = -1
    /\ pdf_output = NoPdfOutput
    /\ pdf_exit = -1
    /\ ExtractIdle
    /\ EvalIdle

\* lines 10-14
OpenPdf ==
    /\ ppc = "open"
    /\ IF ~pdf_file.exists
       THEN ppc' = "failed" /\ pdf_exit' = 1
       ELSE ppc' = "read" /\ UNCHANGED pdf_exit
    /\ UNCHANGED <<pdf_file, text, debt, pdf_output>>
    /\ UNCHANGED <<evalVars, extractVars>>

\* lines 15-18
ReadPages ==
    /\ ppc = "read"
    /\ text' = ConcatPages(pdf_file.pages)
    /\ ppc' = "search"
    /\ UNCHANGED <<pdf_file, debt, pdf_output, pdf_exit>>
    /\ UNCHANGED <<evalVars, extractVars>>

\* lines 21-34
FindTotal ==
    /\ ppc = "search"
    /\ IF ~SearchTotal(text).found
       THEN ppc' = "failed" /\ pdf_exit' = 1 /\ UNCHANGED debt
       ELSE /\ debt' = DigitsValue(SearchTotal(text).group)
            /\ ppc' = "write"
            /\ UNCHANGED pdf_exit
    /\ UNCHANGED <<pdf_file, text, pdf_output>>
    /\ UNCHANGED <<evalVars, extractVars>>

\* lines 44-51
WritePdfResult ==
    /\ ppc = "write"
    /\ pdf_output' = [written |-> TRUE, value |-> debt]
    /\ ppc' = "done"
    /\ pdf_exit' = 0
    /\ UNCHANGED <<pdf_file, text, debt>>
    /\ UNCHANGED <<evalVars, extractVars>>

PdfNext == OpenPdf \/ ReadPages \/ FindTotal \/ WritePdfResult

SpecPdf == PdfInit /\ [][PdfNext]_vars

----------------------------------------------------------------------------
(* Properties of the PDF step *)

\* the lines of s: the runs between line breaks
RECURSIVE Lines(_)
Lines(s) ==
    IF \A i \in 1..Len(s) : s[i] # "\n" THEN {s}
    ELSE LET k == CHOOSE i \in 1..Len(s) : s[i] = "\n" /\ \A j \in 1..(i - 1) : s[j] # "\n"
         IN  {SubSeq(s, 1, k - 1)} \cup Lines(SubSeq(s, k + 1, Len(s)))

\* some single line holds a row "Total <int> <int> <int>[%] <int>%"
RowOnOneLine(s) == \E line \in Lines(s) : SearchTotal(line).found

\* C8: the PDF step succeeds exactly when a single line of the text holds the
\* summary row, and then writes that row's trailing percentage; with no such
\* line it fails and writes nothing.
C8_SingleLineRow ==
    (pdf_file.exists /\ ppc \in {"done", "failed"})
    => IF RowOnOneLine(text)
       THEN /\ ppc = "done" /\ pdf_exit = 0 /\ pdf_output.written
            /\ \E line \in Lines(text) :
                  /\ SearchTotal(line).found
                  /\ pdf_output.value = DigitsValue(SearchTotal(line).group)
       ELSE ppc = "failed" /\ pdf_exit # 0 /\ ~pdf_output.written

----------------------------------------------------------------------------
(* check_architecture_quality.py *)

MaxRatingLen == 3
MaxCount == 7

RatingAlphabet == {"A", "B", "C", "D", "E", "F", "b", "N", "/", "Z"}

\* values the artifact may hold under "architecture_rating"
RatingValues == {JStr(s) : s \in SeqsUpTo(RatingAlphabet, MaxRatingLen)} \cup {JNull, JInt(2), Absent}

\* values the artifact may hold under "total_violations"
ViolationValues ==
    {JInt(n) : n \in -1..MaxCount}
    \cup {JStr(<<"7">>), JStr(<<"a","b","c">>), JStr(<<>>), JNull, Absent}

\* the JSON object {"architecture_rating": r, "total_violations": v}, a key left out when Absent
MkData(r, v) ==
    [k \in ({"architecture_rating" : x \in {r} \ {Absent}} \cup {"total_violations" : x \in {v} \ {Absent}})
        |-> IF k = "architecture_rating" THEN r ELSE v]

ArtifactFiles ==
    {[kind |-> "missing", object |-> FALSE, data |-> NoData],
     [kind |-> "invalid", object |-> FALSE, data |-> NoData],
     [kind |-> "json", object |-> FALSE, data |-> NoData]}      \* valid JSON, not an object
    \cup {[kind |-> "json", object |-> TRUE, data |-> MkData(r, v)] : r \in RatingValues, v \in ViolationValues}

min_rating == <<"B">>
max_violations == 5
rating_order == <<<<"A">>, <<"B">>, <<"C">>, <<"D">>, <<"E">>, <<"F">>>>

\* rating_order.index(r)
RatingIndex(r) == (CHOOSE i \in DOMAIN rating_order : rating_order[i] = r) - 1

\* rating in rating_order
RatingKnown(r) == \E i \in DOMAIN rating_order : rating_order[i] = r

GateFailsInclusive(r, v) == RatingIndex(r) > RatingIndex(min_rating) \/ v >= max_violations

\* the condition of line 33
GateFails(r, v) == RatingIndex(r) > RatingIndex(min_rating) \/ v > max_violations

EvalInit ==
    /\ artifact_file \in ArtifactFiles
    /\ epc = "open"
    /\ data = NoData
    /\ rating = <<>>
    /\ violations = 0
    /\ verdict = "running"
    /\ eval_exit = -1
    /\ ExtractIdle
    /\ PdfIdle

EvalEnd(v, status) ==
    /\ epc' = "exited"
    /\ verdict' = v
    /\ eval_exit' = status

\* lines 10-18: open the artifact and json.load it
ReadArtifact ==
    /\ epc = "open"
    /\ IF artifact_file.kind = "missing"
       THEN EvalEnd("file_not_found", 1) /\ UNCHANGED data
       ELSE IF artifact_file.kind = "invalid"
       THEN EvalEnd("invalid_json", 1) /\ UNCHANGED data
       ELSE /\ epc' = "fields"
            /\ data' = artifact_file.data
            /\ UNCHANGED <<verdict, eval_exit>>
    /\ UNCHANGED <<artifact_file, rating, violations>>
    /\ UNCHANGED <<extractVars, pdfVars>>

\* lines 20-21: read the two fields; an exception here is not caught
ReadFields ==
    /\ epc = "fields"
    /\ LET r == Get(data, "architecture_rating", JStr(<<>>))
           v == Get(data, "total_violations", JInt(0))
       IN  IF ~artifact_file.object \/ r.t # "str" \/ IntRaises(v)
           THEN EvalEnd("unhandled_exception", 1) /\ UNCHANGED <<rating, violations>>
           ELSE /\ rating' = Upper(r.s)
                /\ violations' = IntOf(v)
                /\ epc' = "check_rating"
                /\ UNCHANGED <<verdict, eval_exit>>
    /\ UNCHANGED <<artifact_file, data>>
    /\ UNCHANGED <<extractVars, pdfVars>>

\* lines 29-31
CheckRating ==
    /\ epc = "check_rating"
    /\ IF ~RatingKnown(rating)
       THEN EvalEnd("unknown_rating", 1)
       ELSE epc' = "gate" /\ UNCHANGED <<verdict, eval_exit>>
    /\ UNCHANGED <<artifact_file, data, rating, violations>>
    /\ UNCHANGED <<extractVars, pdfVars>>

\* lines 33-41
CheckGate ==
    /\ epc = "gate"
    /\ IF GateFails(rating, violations)
       THEN EvalEnd("gate_failed", 1)
       ELSE EvalEnd("passed", 0)
    /\ UNCHANGED <<artifact_file, data, rating, violations>>
    /\ UNCHANGED <<extractVars, pdfVars>>

EvalNext == ReadArtifact \/ ReadFields \/ CheckRating \/ CheckGate

SpecEval == EvalInit /\ [][EvalNext]_vars

----------------------------------------------------------------------------
(* Properties of the evaluation step *)

SixLetters == {"A", "B", "C", "D", "E", "F"}

\* A is 0, B is 1, ... F is 5
Ordinal(letter) == (CHOOSE i \in DOMAIN UpperLetters : UpperLetters[i] = letter) - 1

PersistedRating == Get(artifact_file.data, "architecture_rating", Absent)
PersistedViolations == Get(artifact_file.data, "total_violations", Absent)

\* the artifact is a JSON object whose violation count is an integer (or left out)
CountIsInteger == artifact_file.kind = "json" /\ artifact_file.object /\ PersistedViolations.t \in {"int", "absent"}

\* C1: for a rating among A..F and a non-negative violation count the step
\* fails the gate exactly when the rating is strictly worse than B or the
\* count is strictly greater than 5, and passes with status 0 otherwise.
C1_GateVerdict ==
    (/\ epc = "exited"
     /\ CountIsInteger
     /\ PersistedViolations.n >= 0
     /\ PersistedRating.t = "str"
     /\ Len(PersistedRating.s) = 1
     /\ PersistedRating.s[1] \in SixLetters)
    => IF Ordinal(PersistedRating.s[1]) > 1 \/ PersistedViolations.n > 5
       THEN verdict = "gate_failed" /\ eval_exit = 1
       ELSE verdict = "passed" /\ eval_exit = 0

\* rating B with exactly 5 violations has passed
C1_Witness ==
    /\ epc = "exited"
    /\ PersistedRating = JStr(<<"B">>)
    /\ PersistedViolations = JInt(5)
    /\ verdict = "passed"

\* the spellings that upper-case to one of the six letters
LetterSpellings == {<<c>> : c \in SixLetters} \cup {<<"a">>, <<"b">>, <<"c">>, <<"d">>, <<"e">>, <<"f">>}

\* C2: a rating string that does not upper-case to one of A..F, or a missing
\* rating, ends in the unknown-rating failure whatever the integer violation
\* count; a rating differing from a letter only by case is judged as that letter.
C2_UnknownRating ==
    (epc = "exited" /\ CountIsInteger /\ PersistedRating.t \in {"str", "absent"})
    => IF PersistedRating.s \notin LetterSpellings
       THEN verdict = "unknown_rating" /\ eval_exit = 1
       ELSE /\ rating \in {<<c>> : c \in SixLetters}
            /\ PersistedRating.s \in {rating, Lower(rating)}
            /\ IF Ordinal(rating[1]) > 1 \/ PersistedViolations.n > 5
               THEN verdict = "gate_failed"
               ELSE verdict = "passed"

\* the sentinel N/A with more violations than allowed ended as unknown rating
C2_Witness ==
    /\ epc = "exited"
    /\ PersistedRating = JStr(<<"N", "/", "A">>)
    /\ PersistedViolations = JInt(MaxCount)
    /\ verdict = "unknown_rating"

\* C9: whatever the artifact holds, the step ends passed with status 0 or
\* with a non-zero status under one of the four named failure kinds.
C9_NamedOutcome ==
    epc = "exited"
    => \/ verdict = "passed" /\ eval_exit = 0
       \/ verdict \in {"file_not_found", "invalid_json", "unknown_rating", "gate_failed"} /\ eval_exit # 0

====
